---- MODULE Spec2Model ----
(***************************************************************************)
(* Model of main() in src/cpp/pure_circle.cpp: the "circle" permutation    *)
(* generator.  A 3*N buffer Circle_D holds the base permutation P1 and two *)
(* mirrors P2/P3; every outer iteration copies the mirrors, runs the CP    *)
(* burst of N-1 shift steps, and then advances the base with the C_PP      *)
(* counter.  N is a compile-time constant of the source (#define N 14);    *)
(* here every behaviour picks one N in Init and keeps it.                  *)
(*                                                                         *)
(* Arrays are functions over 0-based index sets, as in the source.         *)
(* total_perms is an unsigned 64-bit counter in the source; within the     *)
(* bounds of this model it stays below 2^16, so no wrap-around can occur.  *)
(***************************************************************************)
EXTENDS Integers, Sequences, FiniteSets, TLC

VARIABLES N, Circle_D, C_PP, total_perms, circle_index, i, target, pc,
          iter, seen, emitted

vars == <<N, Circle_D, C_PP, total_perms, circle_index, i, target, pc,
          iter, seen, emitted>>

\* Largest N a behaviour may be built with.
MaxN == 7

RECURSIVE Factorial(_)
Factorial(n) == IF n <= 1 THEN 1 ELSE n * Factorial(n - 1)

----------------------------------------------------------------------------
\* Macros and pointers of the source.

lastIndex == N - 1

secondLastIndex == N - 2

P1 == 0

P2 == N

P3 == N + (N - 1)

\* The base permutation: the N cells P1[0..N-1].
P == [j \in 0..(N - 1) |-> Circle_D[P1 + j]]

\* memcpy of cnt ints from offset src to offset dst (regions do not overlap).
MemcpyShort(D, dst, src, cnt) ==
    [x \in DOMAIN D |-> IF x >= dst /\ x < dst + (cnt - 1)
                        THEN D[src + (x - dst)] ELSE D[x]]

Memcpy(D, dst, src, cnt) ==
    [x \in DOMAIN D |-> IF x >= dst /\ x < dst + cnt
                        THEN D[src + (x - dst)] ELSE D[x]]

\* The two assignments of one shift step, in program order.
ShiftCellsClobber(D, ci) ==
    LET D1 == [D EXCEPT ![N + ci] = lastIndex]
    IN  [D1 EXCEPT ![lastIndex + ci] = D1[N + ci]]

ShiftCells(D, ci) ==
    LET D1 == [D EXCEPT ![lastIndex + ci] = D[N + ci]]
    IN  [D1 EXCEPT ![N + ci] = lastIndex]

\* total_perms += N
BurstCountShort(tp) == tp + lastIndex

BurstCount(tp) == tp + N

\* int temp = P1[a]; P1[a] = P1[b]; P1[b] = temp;
SwapCells(D, a, b) == [D EXCEPT ![P1 + a] = D[P1 + b], ![P1 + b] = D[P1 + a]]

\* The carry condition of the while loop at line 100.
CarryCondEarly == i > 0 /\ C_PP[i] >= i

CarryCondLate == i > 0 /\ C_PP[i] > i + 1

CarryCond == i > 0 /\ C_PP[i] > i

\* int target = C_PP[i] - 1;
TargetOffByOne == C_PP[i]

Target == C_PP[i] - 1

\* The len cells D[s..s+len-1] read as one decimal number, first cell as the
\* leading digit (labels are below 10): the cells 0,2,1 read 21.
RECURSIVE Encode(_, _, _)
Encode(D, s, len) ==
    IF len = 0 THEN 0 ELSE 10 * Encode(D, s, len - 1) + D[s + len - 1]

\* The N sequences one shift step accounts for: the length-N contiguous
\* windows of Circle_D that contain the cell pos, where the step has just
\* put the label N-1.
Windows(D, pos) == { Encode(D, s, N) : s \in (pos - N + 1)..pos }

\* The ordering of P1[0..N-3], as a sequence.
BasePrefix(D) == [j \in 1..(N - 2) |-> D[P1 + j - 1]]

----------------------------------------------------------------------------
\* State after lines 73-82: buffers zeroed, P1 = identity, counter 0.

InitFor(ns) ==
    /\ N \in ns
    /\ Circle_D = [x \in 0..(3 * N - 1) |-> IF x < N THEN x ELSE 0]
    /\ C_PP = [x \in 0..(N - 1) |-> 0]
    /\ total_perms = 0
    /\ circle_index = 0
    /\ i = 0
    /\ target = 0
    /\ pc = "while"
    /\ iter = 0
    /\ seen = {}
    /\ emitted = {}

Init == InitFor(3..MaxN)

\* Line 85, condition true: a new outer iteration starts.
WhileEnter ==
    /\ pc = "while"
    /\ C_PP[0] < 1
    /\ pc' = "sync"
    /\ iter' = iter + 1
    /\ seen' = seen \cup {BasePrefix(Circle_D)}
    /\ UNCHANGED <<N, Circle_D, C_PP, total_perms, circle_index, i, target,
                   emitted>>

\* Line 85, condition false: the loop ends.
WhileExit ==
    /\ pc = "while"
    /\ ~(C_PP[0] < 1)
    /\ pc' = "done"
    /\ UNCHANGED <<N, Circle_D, C_PP, total_perms, circle_index, i, target,
                   iter, seen, emitted>>

\* Lines 87-88: sync mirror; line 91: circle_index = 0.
Sync ==
    /\ pc = "sync"
    /\ Circle_D' = Memcpy(Memcpy(Circle_D, P2, P1, N - 1), P3, P1, N - 1)
    /\ circle_index' = 0
    /\ pc' = "burst"
    /\ UNCHANGED <<N, C_PP, total_perms, i, target, iter, seen, emitted>>

\* Lines 91-95: one shift step of the CP burst.
ShiftStep ==
    /\ pc = "burst"
    /\ circle_index < lastIndex
    /\ total_perms' = BurstCount(total_perms)
    /\ Circle_D' = ShiftCells(Circle_D, circle_index)
    /\ emitted' = emitted \cup Windows(Circle_D', N + circle_index)
    /\ circle_index' = circle_index + 1
    /\ UNCHANGED <<N, C_PP, i, target, pc, iter, seen>>

\* Line 91, condition false: the burst is over.
BurstExit ==
    /\ pc = "burst"
    /\ ~(circle_index < lastIndex)
    /\ pc' = "inc"
    /\ UNCHANGED <<N, Circle_D, C_PP, total_perms, circle_index, i, target,
                   iter, seen, emitted>>

\* Lines 98-99: i = N - 3; C_PP[i]++ (defined only when N - 3 >= 0).
Inc ==
    /\ pc = "inc"
    /\ N - 3 >= 0
    /\ i' = N - 3
    /\ C_PP' = [C_PP EXCEPT ![N - 3] = C_PP[N - 3] + 1]
    /\ pc' = "carry"
    /\ UNCHANGED <<N, Circle_D, total_perms, circle_index, target, iter, seen,
                   emitted>>

\* Lines 98-99 when N - 3 < 0: C_PP[i]++ writes before the start of C_PP.
\* The behaviour is undefined: the build either traps or goes on with some
\* neighbouring object modified, which is not modelled any further.
IncOutOfBounds ==
    /\ pc = "inc"
    /\ N - 3 < 0
    /\ i' = N - 3
    /\ pc' \in {"trapped", "undefined"}
    /\ UNCHANGED <<N, Circle_D, C_PP, total_perms, circle_index, target, iter,
                   seen, emitted>>

\* Lines 100-102: the carry condition holds; swap P1[i] with P1[target].
CarrySwap ==
    /\ pc = "carry"
    /\ CarryCond
    /\ target' = Target
    /\ Circle_D' = SwapCells(Circle_D, i, Target)
    /\ pc' = "carry_reset"
    /\ UNCHANGED <<N, C_PP, total_perms, circle_index, i, iter, seen, emitted>>

\* Lines 103-105: C_PP[i] = 0; i--; C_PP[i]++.
CarryReset ==
    /\ pc = "carry_reset"
    /\ i' = i - 1
    /\ C_PP' = [[C_PP EXCEPT ![i] = 0] EXCEPT ![i - 1] = C_PP[i - 1] + 1]
    /\ pc' = "carry"
    /\ UNCHANGED <<N, Circle_D, total_perms, circle_index, target, iter, seen,
                   emitted>>

\* Line 100, condition false: the carry loop ends.
CarryExit ==
    /\ pc = "carry"
    /\ ~CarryCond
    /\ pc' = "post"
    /\ UNCHANGED <<N, Circle_D, C_PP, total_perms, circle_index, i, target,
                   iter, seen, emitted>>

\* Lines 107-108: no overflow; compute the target of the post-carry swap.
PostTarget ==
    /\ pc = "post"
    /\ C_PP[0] < 1
    /\ target' = Target
    /\ pc' = "post_swap"
    /\ UNCHANGED <<N, Circle_D, C_PP, total_perms, circle_index, i, iter, seen,
                   emitted>>

\* Line 107, condition false: the counter overflowed, no swap.
PostSkip ==
    /\ pc = "post"
    /\ ~(C_PP[0] < 1)
    /\ pc' = "restore"
    /\ UNCHANGED <<N, Circle_D, C_PP, total_perms, circle_index, i, target,
                   iter, seen, emitted>>

\* Lines 109-111: swap P1[i] with P1[target] unless target is negative.
PostSwap ==
    /\ pc = "post_swap"
    /\ Circle_D' = IF target >= 0 THEN SwapCells(Circle_D, i, target)
                   ELSE Circle_D
    /\ pc' = "restore"
    /\ UNCHANGED <<N, C_PP, total_perms, circle_index, i, target, iter, seen,
                   emitted>>

\* Line 113: P1[lastIndex] = lastIndex.
RestoreSkipped ==
    /\ pc = "restore"
    /\ pc' = "while"
    /\ UNCHANGED <<N, Circle_D, C_PP, total_perms, circle_index, i, target,
                   iter, seen, emitted>>

Restore ==
    /\ pc = "restore"
    /\ Circle_D' = [Circle_D EXCEPT ![P1 + lastIndex] = lastIndex]
    /\ pc' = "while"
    /\ UNCHANGED <<N, C_PP, total_perms, circle_index, i, target, iter, seen,
                   emitted>>

Next ==
    \/ WhileEnter
    \/ WhileExit
    \/ Sync
    \/ ShiftStep
    \/ BurstExit
    \/ Inc
    \/ CarrySwap
    \/ CarryReset
    \/ CarryExit
    \/ PostTarget
    \/ PostSkip
    \/ PostSwap
    \/ Restore

Spec == Init /\ [][Next]_vars

\* The loop is straight-line sequential code: it keeps running until it exits.
FairSpec == Init /\ [][Next]_vars /\ WF_vars(Next)

\* Builds with any N >= 1, including those below the supported minimum.
InitAnyN == InitFor(1..MaxN)

NextAnyN == Next \/ IncOutOfBounds

SpecAnyN == InitAnyN /\ [][NextAnyN]_vars

----------------------------------------------------------------------------
\* Helpers of the properties.

\* f, a function over 0..(n-1), holds each label 0..n-1 exactly once.
IsPermutation(f, n) ==
    /\ \A x \in 0..(n - 1) : f[x] \in 0..(n - 1)
    /\ \A x, y \in 0..(n - 1) : f[x] = f[y] => x = y

RECURSIVE Pow10(_)
Pow10(n) == IF n = 0 THEN 1 ELSE 10 * Pow10(n - 1)

\* The label at position x (1..N) of the emitted sequence w.
Label(w, x) == (w \div Pow10(N - x)) % 10

\* w, an emitted sequence of length N, holds each label 0..N-1 exactly once.
IsPermutationSeq(w) ==
    /\ w < Pow10(N)
    /\ \A x \in 1..N : Label(w, x) \in 0..(N - 1)
    /\ \A x, y \in 1..N : Label(w, x) = Label(w, y) => x = y

----------------------------------------------------------------------------
\* C1: for every N the run emits exactly N! pairwise distinct permutations of
\* 0..N-1 (every window a shift step accounts for is new, each is a
\* permutation, and at the end there are N! of them); for N = 3 the emitted
\* set is the six permutations of {0,1,2} (012, 021, 102, 120, 201, 210).
C1_EmitsEveryPermutationOnce ==
    /\ Cardinality(emitted) = total_perms
    /\ \A w \in emitted : IsPermutationSeq(w)
    /\ pc = "done" => Cardinality(emitted) = Factorial(N)
    /\ (pc = "done" /\ N = 3) =>
          emitted = {12, 21, 102, 120, 201, 210}

\* C2: when the loop exits total_perms is exactly N!; every outer iteration
\* adds N per shift step over N-1 shift steps; total_perms never decreases.
C2_TotalPerms ==
    /\ [](pc = "done" => total_perms = Factorial(N))
    /\ [](pc = "while" => total_perms = iter * N * (N - 1))
    /\ [](pc = "burst" =>
            total_perms = (iter - 1) * N * (N - 1) + circle_index * N)
    /\ [][(total_perms' >= total_perms)]_vars

C2_Witness == pc = "done" /\ N = 5 /\ total_perms = 120

\* C3: the run always terminates; it exits the first time C_PP[0] reaches 1
\* (no iteration starts once C_PP[0] >= 1, and the run ends for no other
\* reason), after exactly (N-2)! outer iterations, with C_PP[0] = 1 and
\* C_PP[x] = 0 for x in 1..N-3.
C3_Terminates ==
    /\ <>(pc = "done")
    /\ [](pc = "done" =>
            /\ iter = Factorial(N - 2)
            /\ C_PP[0] = 1
            /\ \A x \in 1..(N - 3) : C_PP[x] = 0)
    /\ [](C_PP[0] >= 1 => pc \notin {"sync", "burst", "inc"})
    /\ [][(pc' = "done") => (pc = "while" /\ C_PP[0] >= 1)]_vars

C3_Witness == pc = "done" /\ N = 5 /\ iter = 6 /\ C_PP[0] = 1

\* C4 as stated: at every observable point (after initialisation, after the
\* mirror sync, after each shift step, at the end of the burst, after each
\* base advance) P holds each label 0..N-1 exactly once.
C4_PAlwaysPermutation ==
    pc \in {"while", "burst", "inc", "done"} => IsPermutation(P, N)

\* C4 amended: P is a permutation of 0..N-1 after initialisation, after each
\* base advance (line 113 done) and after the mirror sync; from the first
\* shift step until line 113 only P[0..N-2] is a permutation of 0..N-2, and
\* P[N-1] holds a copy of P[0].
C4_PPermutationOutsideBurst ==
    /\ (pc \in {"while", "sync", "done"} \/ (pc = "burst" /\ circle_index = 0))
          => IsPermutation(P, N)
    /\ IsPermutation(P, N - 1)
    /\ ((pc = "burst" /\ circle_index >= 1) \/ pc = "inc")
          => P[N - 1] = P[0]

C4_Witness ==
    /\ pc = "while"
    /\ iter >= 2
    /\ C_PP[0] < 1
    /\ P[0] # 0

\* C5: between engine operations before exhaustion (after initialisation,
\* after each burst, after each base advance that leaves C_PP[0] < 1) every
\* digit satisfies 0 <= C_PP[x] <= x; a digit exceeds its index only inside
\* a base advance, where it is the digit the carry loop is about to reset,
\* or as C_PP[0] = 1 in the overflow state.
C5_CounterBounded ==
    /\ (pc \in {"while", "sync", "burst", "inc"} /\ C_PP[0] < 1)
          => \A x \in 0..(N - 3) : 0 <= C_PP[x] /\ C_PP[x] <= x
    /\ \A x \in 1..(N - 3) :
          C_PP[x] > x => /\ pc \in {"carry", "carry_reset"}
                         /\ x = i
                         /\ C_PP[x] = x + 1
    /\ C_PP[0] > 0 => /\ C_PP[0] = 1
                      /\ pc \in {"carry", "post", "restore", "while", "done"}
    /\ \A x \in 0..(N - 1) : C_PP[x] >= 0

C5_Witness ==
    /\ pc = "inc"
    /\ N = 5
    /\ C_PP[2] = 2
    /\ C_PP[1] = 1

\* C6: when the burst begins the middle window Circle_D[N..2N-2] and the
\* trailing window Circle_D[2N-1..3N-3] both equal P[0..N-2], also after a
\* base advance changed P; the trailing window still equals P[0..N-2] after
\* every shift step of the burst.
C6_MirrorInvariant ==
    /\ (pc = "burst" /\ circle_index = 0) =>
          \A j \in 0..(N - 2) : /\ Circle_D[P2 + j] = P[j]
                                /\ Circle_D[P3 + j] = P[j]
    /\ pc \in {"burst", "inc"} =>
          \A j \in 0..(N - 2) : Circle_D[P3 + j] = P[j]

C6_Witness ==
    /\ pc = "burst"
    /\ circle_index = 0
    /\ iter >= 2
    /\ P[0] # 0
    /\ Circle_D[P2] = P[0]

\* C7: a build with N < 3 is rejected before any generation step runs, so
\* the base advance is never evaluated with start index N-3 < 0.
C7_SmallNRejected == N < 3 => pc \notin {"trapped", "undefined"}

\* C8: the orderings of P[0..N-3] at the start of the outer iterations are
\* pairwise distinct, all (N-2)! orderings are visited, and P[N-2] = N-2 and
\* P[N-1] = N-1 at the start of every iteration.
C8_BaseStatesDistinct ==
    /\ Cardinality(seen) = iter
    /\ pc = "done" => Cardinality(seen) = Factorial(N - 2)
    /\ pc = "sync" => (P[N - 2] = N - 2 /\ P[N - 1] = N - 1)

\* C9: every executed swap of a base advance uses i and target = C_PP[i]-1
\* with 0 <= target <= i <= N-3, so it touches neither P[N-2] nor P[N-1];
\* a negative target can only go with an overflowed counter, and when the
\* counter has overflowed no post-carry swap is performed.
C9_SwapInBounds ==
    /\ [](pc \in {"carry_reset", "post_swap"} =>
            /\ 0 <= target
            /\ target <= i
            /\ i <= N - 3
            /\ i \in DOMAIN C_PP)
    /\ [](pc = "post_swap" /\ target < 0 => C_PP[0] >= 1)
    /\ [][(pc \in {"carry", "post_swap"}) =>
            (\A x \in DOMAIN Circle_D :
                x >= N - 2 => (Circle_D'[x] = Circle_D[x]))]_vars
    /\ [][(pc = "post" /\ C_PP[0] >= 1) => Circle_D' = Circle_D]_vars

C9_Witness ==
    /\ pc = "carry_reset"
    /\ N = 6
    /\ i = 2
    /\ target = 2
    /\ P[0] # 0

\* C10: after k >= 1 shift steps of a burst the cells Circle_D[N-1..2N-2]
\* read b[0..k-1], the label N-1, b[k..N-2], where b = P[0..N-2]; a shift
\* step writes exactly the two cells Circle_D[N-1+k-1] and Circle_D[N+k-1]
\* and leaves P[0..N-2], the trailing window and C_PP unchanged.
C10_BurstShape ==
    /\ [](((pc = "burst" /\ circle_index >= 1) \/ pc = "inc") =>
            \A j \in 0..(N - 1) :
               Circle_D[N - 1 + j] =
                  IF j < circle_index THEN P[j]
                  ELSE IF j = circle_index THEN N - 1
                  ELSE P[j - 1])
    /\ [][(pc = "burst" /\ circle_index < lastIndex) =>
            /\ \A x \in DOMAIN Circle_D :
                  (Circle_D'[x] # Circle_D[x]) <=>
                     x \in {N - 1 + circle_index, N + circle_index}
            /\ C_PP' = C_PP]_vars

C10_Witness ==
    /\ pc = "burst"
    /\ circle_index = 2
    /\ N = 5
    /\ P[0] # 0
    /\ Circle_D[N + 1] = N - 1

====
